---- MODULE Spec2Model ----
(***************************************************************************)
(* A model of code_snippets/pyhon/logging/logger.py: the LoggerConfig      *)
(* class (constructor, _validate_mode, format, _prepare_log_directory,     *)
(* get_logger), the part of the logging registry and of the filesystem it  *)
(* touches.                                                                *)
(*                                                                         *)
(* Four specifications share the variables:                                *)
(*   SpecFormat   one call of the static method LoggerConfig.format        *)
(*   SpecInit     one call of the constructor LoggerConfig(...)            *)
(*   Spec         a single thread constructing configs and calling         *)
(*                get_logger, each call running to completion              *)
(*   SpecThreads  several threads inside get_logger at once, one source    *)
(*                statement per step                                       *)
(***************************************************************************)
EXTENDS FiniteSets, Integers, Sequences, TLC

VARIABLES
    call,       \* the call being made / made last, with its arguments
    result,     \* what the last call returned (None when it raised or returned nothing)
    error,      \* the exception the last call raised (None when it returned)
    cfg,        \* the LoggerConfig object held by the caller (None when there is none)
    registry,   \* logging's name -> Logger mapping: level and handlers of each logger
    fs,         \* what the filesystem holds at each log_path
    created,    \* number of Handler objects constructed so far (object identity)
    pc,         \* SpecThreads: the statement of get_logger each thread is at
    tcfg,       \* SpecThreads: the LoggerConfig (self) of each thread's call
    local,      \* SpecThreads: the local variable `handler` of each thread's call
    outcome     \* "pending" before the call is made, then "returned" or "raised"

vars == <<call, result, error, cfg, registry, fs, created, pc, tcfg, local, outcome>>

None == "<None>"    \* Python's None where a string is expected

NoConfig == [absent |-> TRUE]      \* no LoggerConfig object
NoError == [type |-> None]         \* no exception raised
NoHandler == [id |-> 0]            \* `handler` not assigned yet

(***************************************************************************)
(* Bounds                                                                  *)
(***************************************************************************)
MaxKwargs == 2      \* keyword arguments in one call of format
MaxModeLen == 2     \* characters in a mode string given to the constructor
MaxHandlers == 2    \* Handler objects constructed in one run

(***************************************************************************)
(* LoggerConfig.format                                                     *)
(***************************************************************************)

\* The six named parameters of format, in declaration order.
CanonicalFields == <<"name", "asctime", "levelname", "message", "lineno", "funcName">>

\* Their default values.
FormatDefaults ==
    [k \in {CanonicalFields[i] : i \in 1..Len(CanonicalFields)} |->
        (k = "message")]

\* Names a caller may pass that are not parameters: they land in **additional_fields.
ExtraFields == {"process", "thread"}

CanonicalSet == {CanonicalFields[i] : i \in 1..Len(CanonicalFields)}

RECURSIVE BoolSeqs(_)
\* All sequences of booleans of length n.
BoolSeqs(n) ==
    IF n = 0 THEN {<<>>}
    ELSE {Append(s, b) : s \in BoolSeqs(n - 1), b \in BOOLEAN}

RECURSIVE KwSeqs(_)
\* All keyword-argument lists of length n: pairs <<key, flag>> with distinct keys.
KwSeqs(n) ==
    IF n = 0 THEN {<<>>}
    ELSE {Append(s, <<k, b>>) :
            s \in KwSeqs(n - 1),
            k \in CanonicalSet \cup ExtraFields,
            b \in BOOLEAN}

KwKeys(kw) == {kw[i][1] : i \in 1..Len(kw)}

\* A call of format Python accepts: at most six positional arguments, no
\* keyword repeated, no keyword naming a parameter already given by position.
FormatCalls ==
    {[op |-> "format", args |-> a, kwargs |-> k] :
        a \in UNION {BoolSeqs(n) : n \in 0..Len(CanonicalFields)},
        k \in {q \in UNION {KwSeqs(n) : n \in 0..MaxKwargs} :
                  Cardinality(KwKeys(q)) = Len(q)}}

FormatCallOk(c) ==
    \A i \in 1..Len(c.args) : CanonicalFields[i] \notin KwKeys(c.kwargs)

KwValue(kw, k) == kw[CHOOSE i \in 1..Len(kw) : kw[i][1] = k][2]

\* Python's binding of the call's arguments to the parameter at position i.
BindParam(c, i) ==
    IF i <= Len(c.args) THEN c.args[i]
    ELSE IF CanonicalFields[i] \in KwKeys(c.kwargs)
         THEN KwValue(c.kwargs, CanonicalFields[i])
         ELSE FormatDefaults[CanonicalFields[i]]

IsExtra(kv) == kv[1] \notin CanonicalSet

\* **additional_fields: the keywords that name no parameter, in call order.
AdditionalFields(c) == SelectSeq(c.kwargs, IsExtra)

\* d[key] = value on an insertion-ordered dict (a sequence of <<key, value>>).
DictSet(d, key, value) ==
    IF \E i \in 1..Len(d) : d[i][1] = key
    THEN [i \in 1..Len(d) |-> IF d[i][1] = key THEN <<key, value>> ELSE d[i]]
    ELSE Append(d, <<key, value>>)

RECURSIVE DictUpdate(_, _)
\* {**d, **items}
DictUpdate(d, items) ==
    IF items = <<>> THEN d
    ELSE DictUpdate(DictSet(d, Head(items)[1], Head(items)[2]), Tail(items))

\* Variant of Fields: **additional_fields spread before the named parameters.
FieldsExtrasFirst(c) ==
    DictUpdate(AdditionalFields(c),
               [i \in 1..Len(CanonicalFields) |-> <<CanonicalFields[i], BindParam(c, i)>>])

\* The dict literal `fields` of format.
Fields(c) ==
    DictUpdate([i \in 1..Len(CanonicalFields) |-> <<CanonicalFields[i], BindParam(c, i)>>],
               AdditionalFields(c))

\* f"%({key})s"
Token(key) == "%(" \o key \o ")s"

RECURSIVE JoinSpace(_)
\* " ".join(tokens)
JoinSpace(tokens) ==
    IF tokens = <<>> THEN ""
    ELSE IF Len(tokens) = 1 THEN tokens[1]
    ELSE tokens[1] \o " " \o JoinSpace(Tail(tokens))

\* Variant of Included: the message field is kept whatever its flag.
IncludedMessageAlways(kv) == kv[2] \/ kv[1] = "message"

\* `if include` of the generator expression
Included(kv) == kv[2]

\* LoggerConfig.format(*args, **kwargs)
format(c) ==
    LET selected == SelectSeq(Fields(c), Included)
    IN  JoinSpace([i \in 1..Len(selected) |-> Token(selected[i][1])])

(***************************************************************************)
(* LoggerConfig.__init__ and _validate_mode                                *)
(***************************************************************************)

\* Characters mode strings are drawn from.
ModeChars == {"a", "w", "x", "A", "W", "X"}

\* str.lower() on one character.
LowerChar(ch) ==
    CASE ch = "A" -> "a"
      [] ch = "W" -> "w"
      [] ch = "X" -> "x"
      [] OTHER -> ch

\* Variant of Lower: the mode is compared as given.
LowerIdentity(str) == str

\* str.lower(): strings are sequences of characters.
Lower(str) == [i \in 1..Len(str) |-> LowerChar(str[i])]

RECURSIVE Strings(_)
\* All strings of n characters.
Strings(n) ==
    IF n = 0 THEN {<<>>}
    ELSE {Append(s, ch) : s \in Strings(n - 1), ch \in ModeChars}

ModeStrings == UNION {Strings(n) : n \in 0..MaxModeLen}

\* LoggerConfig._validate_mode(mode): the returned value, or the exception.
_validate_mode(mode) ==
    LET m == Lower(mode)
    IN  IF m \notin {<<"a">>, <<"w">>}
        THEN [raised |-> [type |-> "ValueError"], value |-> None]
        ELSE [raised |-> NoError, value |-> m]

\* LoggerConfig(name, level, log_file, log_path, formatter, mode): the new
\* object, or the exception _validate_mode raised.
LoggerConfig(a) ==
    LET v == _validate_mode(a.mode)
    IN  IF v.raised # NoError
        THEN [raised |-> v.raised, obj |-> NoConfig]
        ELSE [raised |-> NoError,
              obj |-> [name |-> a.name, level |-> a.level, log_file |-> a.log_file,
                       log_path |-> a.log_path, formatter |-> a.formatter,
                       mode |-> v.value]]

\* Argument values of the constructor.
Names == {"app", "db"}
Levels == {10, 20}
LogFiles == {None, "", "app.log"}
LogPaths == {<<"logs">>, <<"ro", "logs">>}
DefaultFormatter == "%(name)s - %(levelname)s - %(message)s"
Formatters == {DefaultFormatter, "%(message)s"}

InitCalls(formatters, modes) ==
    {[op |-> "__init__", name |-> n, level |-> l, log_file |-> f, log_path |-> p,
      formatter |-> fm, mode |-> m] :
        n \in Names, l \in Levels, f \in LogFiles, p \in LogPaths,
        fm \in formatters, m \in modes}

(***************************************************************************)
(* The filesystem at a log_path                                            *)
(***************************************************************************)

\* What a log_path can be:
\*   absent_ok      missing, and makedirs can create it
\*   absent_denied  missing, an ancestor forbids creation (EACCES)
\*   absent_notdir  missing, an ancestor is a regular file (ENOTDIR)
\*   dir_ok         a directory files can be opened in
\*   dir_ro         a directory that forbids opening files for writing (EACCES)
\*   file           a regular file stands at log_path (ENOTDIR on open)
FsStates == {"absent_ok", "absent_denied", "absent_notdir", "dir_ok", "dir_ro", "file"}

\* os.path.exists(path)
PathExists(f, path) == f[path] \in {"dir_ok", "dir_ro", "file"}

IsDirectory(f, path) == f[path] \in {"dir_ok", "dir_ro"}

\* os.path.join(log_path, log_file) for a relative log_file.
PathJoin(path, file) == Append(path, file)

\* os.makedirs(path, exist_ok=True): the filesystem afterwards, or the OSError.
Makedirs(f, path) ==
    CASE f[path] = "absent_ok" ->
            [fs |-> [f EXCEPT ![path] = "dir_ok"], raised |-> NoError]
      [] f[path] = "absent_denied" ->
            [fs |-> f, raised |-> [type |-> "PermissionError", path |-> path, cause |-> None]]
      [] f[path] = "absent_notdir" ->
            [fs |-> f, raised |-> [type |-> "NotADirectoryError", path |-> path, cause |-> None]]
      [] f[path] \in {"dir_ok", "dir_ro"} ->
            [fs |-> f, raised |-> NoError]
      [] OTHER ->
            [fs |-> f, raised |-> [type |-> "FileExistsError", path |-> path, cause |-> None]]

\* open(path/file, mode) inside logging.FileHandler: the OSError, if any.
OpenError(f, path, file) ==
    CASE f[path] = "dir_ok" -> NoError
      [] f[path] = "dir_ro" ->
            [type |-> "PermissionError", path |-> PathJoin(path, file), cause |-> None]
      [] f[path] = "file" ->
            [type |-> "NotADirectoryError", path |-> PathJoin(path, file), cause |-> None]
      [] OTHER ->
            [type |-> "FileNotFoundError", path |-> PathJoin(path, file), cause |-> None]

(***************************************************************************)
(* LoggerConfig._prepare_log_directory and get_logger                      *)
(***************************************************************************)

\* Variant of Truthy: `if self.log_file is not None`.
TruthyNotNone(log_file) == log_file # None

\* `if self.log_file`: None and the empty string are false.
Truthy(log_file) == log_file # None /\ log_file # ""

\* A logger the registry has not been asked for yet: logging.getLogger
\* creates it with level NOTSET (0) and no handlers.
FreshLogger == [registered |-> FALSE, level |-> 0, handlers |-> <<>>]

\* self._prepare_log_directory(): the filesystem afterwards, or the OSError.
_prepare_log_directory(c, f) ==
    IF Truthy(c.log_file) /\ ~PathExists(f, c.log_path)
    THEN Makedirs(f, c.log_path)
    ELSE [fs |-> f, raised |-> NoError]

\* logger = logging.getLogger(self.name); logger.setLevel(self.level)
SetLevel(reg, c) ==
    [reg EXCEPT ![c.name] =
        [registered |-> TRUE, level |-> c.level, handlers |-> @.handlers]]

\* Variant of ClearHandlers: the handlers are kept.
ClearHandlersNoop(reg, c) == reg

\* logger.handlers.clear()
ClearHandlers(reg, c) == [reg EXCEPT ![c.name].handlers = <<>>]

\* logging.FileHandler(os.path.join(...), mode=self.mode, encoding="utf-8")
\* inside the try: the handler (formatter not set yet), or the PermissionError
\* the except clause raises from the OSError.
NewFileHandler(c, f, id) ==
    LET e == OpenError(f, c.log_path, c.log_file)
    IN  IF e # NoError
        THEN [raised |-> [type |-> "PermissionError",
                          path |-> PathJoin(c.log_path, c.log_file),
                          cause |-> e.type],
              handler |-> NoHandler]
        ELSE [raised |-> NoError,
              handler |-> [id |-> id, kind |-> "FileHandler",
                           baseFilename |-> PathJoin(c.log_path, c.log_file),
                           mode |-> c.mode, formatter |-> None]]

\* logging.StreamHandler()
NewStreamHandler(id) ==
    [id |-> id, kind |-> "StreamHandler", baseFilename |-> <<>>,
     mode |-> <<>>, formatter |-> None]

\* handler.setFormatter(formatter); logger.addHandler(handler)
\* (addHandler skips a handler object that is already in the list)
AddHandler(reg, c, h) ==
    LET hs == reg[c.name].handlers
        hf == [h EXCEPT !.formatter = c.formatter]
    IN  IF \E i \in 1..Len(hs) : hs[i].id = h.id
        THEN reg
        ELSE [reg EXCEPT ![c.name].handlers = Append(hs, hf)]

\* Variant of get_logger: the handlers are cleared only once the new handler exists.
get_logger_open_before_clear(c, reg, f, n) ==
    LET r0 == SetLevel(reg, c)
        d == _prepare_log_directory(c, f)
        h == NewFileHandler(c, d.fs, n + 1)
    IN  IF ~Truthy(c.log_file)
        THEN [registry |-> AddHandler(ClearHandlers(r0, c), c, NewStreamHandler(n + 1)),
              fs |-> f, created |-> n + 1, raised |-> NoError, returned |-> c.name]
        ELSE IF d.raised # NoError
        THEN [registry |-> r0, fs |-> d.fs, created |-> n,
              raised |-> d.raised, returned |-> None]
        ELSE IF h.raised # NoError
        THEN [registry |-> r0, fs |-> d.fs, created |-> n,
              raised |-> h.raised, returned |-> None]
        ELSE [registry |-> AddHandler(ClearHandlers(r0, c), c, h.handler),
              fs |-> d.fs, created |-> n + 1, raised |-> NoError, returned |-> c.name]

\* Variant of get_logger: the handlers of every logger are cleared.
get_logger_clear_all(c, reg, f, n) ==
    LET r0 == SetLevel(reg, c)
        r1 == [x \in DOMAIN r0 |-> [r0[x] EXCEPT !.handlers = <<>>]]
        d == _prepare_log_directory(c, f)
        h == NewFileHandler(c, d.fs, n + 1)
    IN  IF ~Truthy(c.log_file)
        THEN [registry |-> AddHandler(r1, c, NewStreamHandler(n + 1)),
              fs |-> f, created |-> n + 1, raised |-> NoError, returned |-> c.name]
        ELSE IF d.raised # NoError
        THEN [registry |-> r1, fs |-> d.fs, created |-> n,
              raised |-> d.raised, returned |-> None]
        ELSE IF h.raised # NoError
        THEN [registry |-> r1, fs |-> d.fs, created |-> n,
              raised |-> h.raised, returned |-> None]
        ELSE [registry |-> AddHandler(r1, c, h.handler),
              fs |-> d.fs, created |-> n + 1, raised |-> NoError, returned |-> c.name]

\* self.get_logger() run to completion with n handlers constructed before:
\* the registry, the filesystem and the handler count afterwards, and the
\* logger returned or the exception raised.
get_logger(c, reg, f, n) ==
    LET r1 == ClearHandlers(SetLevel(reg, c), c)
        d == _prepare_log_directory(c, f)
        h == NewFileHandler(c, d.fs, n + 1)
    IN  IF ~Truthy(c.log_file)
        THEN [registry |-> AddHandler(r1, c, NewStreamHandler(n + 1)),
              fs |-> f, created |-> n + 1, raised |-> NoError, returned |-> c.name]
        ELSE IF d.raised # NoError
        THEN [registry |-> r1, fs |-> d.fs, created |-> n,
              raised |-> d.raised, returned |-> None]
        ELSE IF h.raised # NoError
        THEN [registry |-> r1, fs |-> d.fs, created |-> n,
              raised |-> h.raised, returned |-> None]
        ELSE [registry |-> AddHandler(r1, c, h.handler),
              fs |-> d.fs, created |-> n + 1, raised |-> NoError, returned |-> c.name]

(***************************************************************************)
(* Threads (SpecThreads)                                                   *)
(***************************************************************************)
Threads == {"t1", "t2"}

IdleThreads == [t \in Threads |-> "idle"]
NoLocals == [t \in Threads |-> NoHandler]
NoSelves == [t \in Threads |-> NoConfig]

(***************************************************************************)
(* SpecFormat: one call of LoggerConfig.format                             *)
(***************************************************************************)
InitFormat ==
    /\ call \in {c \in FormatCalls : FormatCallOk(c)}
    /\ result = None
    /\ error = NoError
    /\ outcome = "pending"
    /\ cfg = NoConfig
    /\ registry = [n \in Names |-> FreshLogger]
    /\ fs = [p \in LogPaths |-> "absent_ok"]
    /\ created = 0
    /\ pc = IdleThreads
    /\ tcfg = NoSelves
    /\ local = NoLocals

CallFormat ==
    /\ call.op = "format"
    /\ outcome = "pending"
    /\ result' = format(call)
    /\ outcome' = "returned"
    /\ UNCHANGED <<call, error, cfg, registry, fs, created, pc, tcfg, local>>

NextFormat == CallFormat

SpecFormat == InitFormat /\ [][NextFormat]_vars

(***************************************************************************)
(* SpecInit: one call of the constructor                                   *)
(***************************************************************************)
InitInit ==
    /\ call \in InitCalls(Formatters, ModeStrings)
    /\ result = None
    /\ error = NoError
    /\ outcome = "pending"
    /\ cfg = NoConfig
    /\ registry = [n \in Names |-> FreshLogger]
    /\ fs \in [LogPaths -> {"absent_ok", "dir_ro"}]
    /\ created = 0
    /\ pc = IdleThreads
    /\ tcfg = NoSelves
    /\ local = NoLocals

CallInit ==
    /\ call.op = "__init__"
    /\ outcome = "pending"
    /\ LET r == LoggerConfig(call)
       IN  /\ cfg' = r.obj
           /\ error' = r.raised
           /\ outcome' = IF r.raised = NoError THEN "returned" ELSE "raised"
    /\ UNCHANGED <<call, result, registry, fs, created, pc, tcfg, local>>

NextInit == CallInit

SpecInit == InitInit /\ [][NextInit]_vars

(***************************************************************************)
(* Spec: one thread; every call runs to completion                         *)
(***************************************************************************)

\* Mode arguments the single-threaded caller passes.
CallerModes == {<<"W">>, <<"x">>}

Init ==
    /\ call = [op |-> "start"]
    /\ result = None
    /\ error = NoError
    /\ outcome = "returned"
    /\ cfg = NoConfig
    /\ registry = [n \in Names |-> FreshLogger]
    /\ fs \in [LogPaths -> FsStates]
    /\ created = 0
    /\ pc = IdleThreads
    /\ tcfg = NoSelves
    /\ local = NoLocals

\* cfg = LoggerConfig(...): on an exception the caller keeps the object it had.
Construct ==
    \E a \in InitCalls({DefaultFormatter}, CallerModes) :
        LET r == LoggerConfig(a)
        IN  /\ call' = [op |-> "__init__", mode |-> a.mode]
            /\ cfg' = IF r.raised = NoError THEN r.obj ELSE cfg
            /\ error' = r.raised
            /\ outcome' = IF r.raised = NoError THEN "returned" ELSE "raised"
            /\ result' = None
            /\ UNCHANGED <<registry, fs, created, pc, tcfg, local>>

\* cfg.get_logger()
CallGetLogger ==
    /\ cfg # NoConfig
    /\ created < MaxHandlers
    /\ LET r == get_logger(cfg, registry, fs, created)
       IN  /\ call' = [op |-> "get_logger", self |-> cfg,
                       before |-> registry[cfg.name].handlers,
                       fsBefore |-> fs[cfg.log_path]]
           /\ registry' = r.registry
           /\ fs' = r.fs
           /\ created' = r.created
           /\ error' = r.raised
           /\ result' = r.returned
           /\ outcome' = IF r.raised = NoError THEN "returned" ELSE "raised"
    /\ UNCHANGED <<cfg, pc, tcfg, local>>

Next == Construct \/ CallGetLogger

Spec == Init /\ [][Next]_vars

(***************************************************************************)
(* SpecThreads: threads calling get_logger on the same logger name, one    *)
(* source statement per step; nothing in get_logger takes a lock around    *)
(* the statements, so any interleaving of the steps can happen.            *)
(***************************************************************************)

\* The logger name the threads share, and the configs they call with.
SharedName == "app"
ThreadConfigs ==
    {[name |-> SharedName, level |-> l, log_file |-> f, log_path |-> <<"logs">>,
      formatter |-> DefaultFormatter, mode |-> <<"a">>] :
        l \in Levels, f \in {None, "app.log"}}

InitThreads ==
    /\ call = [op |-> "threads"]
    /\ result = None
    /\ error = NoError
    /\ outcome = "pending"
    /\ cfg = NoConfig
    /\ registry = [n \in Names |-> FreshLogger]
    /\ fs \in [LogPaths -> {"absent_ok", "dir_ro"}]
    /\ created = 0
    /\ pc = IdleThreads
    /\ tcfg = NoSelves
    /\ local = NoLocals

\* A thread calls get_logger on a config of its own.
Enter(t) ==
    /\ pc[t] \in {"idle", "done", "raised"}
    /\ created < MaxHandlers
    /\ \E c \in ThreadConfigs : tcfg' = [tcfg EXCEPT ![t] = c]
    /\ pc' = [pc EXCEPT ![t] = "l118"]
    /\ local' = [local EXCEPT ![t] = NoHandler]
    /\ UNCHANGED <<call, result, error, cfg, registry, fs, created, outcome>>

\* logger = logging.getLogger(self.name); logger.setLevel(self.level)
StepSetLevel(t) ==
    /\ pc[t] = "l118"
    /\ registry' = SetLevel(registry, tcfg[t])
    /\ pc' = [pc EXCEPT ![t] = "l122"]
    /\ UNCHANGED <<call, result, error, cfg, fs, created, tcfg, local, outcome>>

\* logger.handlers.clear(), then the branch on self.log_file
StepClear(t) ==
    /\ pc[t] = "l122"
    /\ registry' = ClearHandlers(registry, tcfg[t])
    /\ pc' = [pc EXCEPT ![t] = IF Truthy(tcfg[t].log_file) THEN "l127" ELSE "l139"]
    /\ UNCHANGED <<call, result, error, cfg, fs, created, tcfg, local, outcome>>

\* self._prepare_log_directory()
StepPrepare(t) ==
    /\ pc[t] = "l127"
    /\ LET d == _prepare_log_directory(tcfg[t], fs)
       IN  /\ fs' = d.fs
           /\ pc' = [pc EXCEPT ![t] = IF d.raised = NoError THEN "l129" ELSE "raised"]
    /\ UNCHANGED <<call, result, error, cfg, registry, created, tcfg, local, outcome>>

\* handler = logging.FileHandler(...), or the PermissionError of the except clause
StepFileHandler(t) ==
    /\ pc[t] = "l129"
    /\ LET h == NewFileHandler(tcfg[t], fs, created + 1)
       IN  IF h.raised = NoError
           THEN /\ local' = [local EXCEPT ![t] = h.handler]
                /\ created' = created + 1
                /\ pc' = [pc EXCEPT ![t] = "l141"]
           ELSE /\ pc' = [pc EXCEPT ![t] = "raised"]
                /\ UNCHANGED <<local, created>>
    /\ UNCHANGED <<call, result, error, cfg, registry, fs, tcfg, outcome>>

\* handler = logging.StreamHandler()
StepStreamHandler(t) ==
    /\ pc[t] = "l139"
    /\ local' = [local EXCEPT ![t] = NewStreamHandler(created + 1)]
    /\ created' = created + 1
    /\ pc' = [pc EXCEPT ![t] = "l141"]
    /\ UNCHANGED <<call, result, error, cfg, registry, fs, tcfg, outcome>>

\* handler.setFormatter(formatter); logger.addHandler(handler); return logger
StepAddHandler(t) ==
    /\ pc[t] = "l141"
    /\ registry' = AddHandler(registry, tcfg[t], local[t])
    /\ pc' = [pc EXCEPT ![t] = "done"]
    /\ UNCHANGED <<call, result, error, cfg, fs, created, tcfg, local, outcome>>

NextThreads ==
    \E t \in Threads :
        \/ Enter(t)
        \/ StepSetLevel(t)
        \/ StepClear(t)
        \/ StepPrepare(t)
        \/ StepFileHandler(t)
        \/ StepStreamHandler(t)
        \/ StepAddHandler(t)

SpecThreads == InitThreads /\ [][NextThreads]_vars

(***************************************************************************)
(* Properties of LoggerConfig.format (SpecFormat)                          *)
(***************************************************************************)
FormatReturned == call.op = "format" /\ outcome = "returned"

\* The flag the call gives to field k: by position, by keyword, or the default.
FlagGiven(c, k) ==
    IF \E i \in 1..Len(c.args) : CanonicalFields[i] = k
    THEN c.args[CHOOSE i \in 1..Len(c.args) : CanonicalFields[i] = k]
    ELSE IF k \in KwKeys(c.kwargs) THEN KwValue(c.kwargs, k)
    ELSE FormatDefaults[k]

\* The extra field names of the call, in the order the caller wrote them.
RECURSIVE ExtrasInCallOrder(_)
ExtrasInCallOrder(kw) ==
    IF kw = <<>> THEN <<>>
    ELSE IF Head(kw)[1] \in ExtraFields
         THEN <<Head(kw)[1]>> \o ExtrasInCallOrder(Tail(kw))
         ELSE ExtrasInCallOrder(Tail(kw))

\* The text the claim describes for a list of field names: the tokens of the
\* fields whose flag is true, single spaces between them.
RECURSIVE ExpectedText(_, _)
ExpectedText(c, names) ==
    IF names = <<>> THEN ""
    ELSE LET rest == ExpectedText(c, Tail(names))
         IN  IF ~FlagGiven(c, Head(names)) THEN rest
             ELSE IF rest = "" THEN "%(" \o Head(names) \o ")s"
             ELSE "%(" \o Head(names) \o ")s " \o rest

AllFlagsFalse(c) ==
    /\ \A k \in CanonicalSet : ~FlagGiven(c, k)
    /\ \A i \in 1..Len(c.kwargs) : ~c.kwargs[i][2]

\* C7: when every flag passed to format is false, message and the extra
\* fields included, it returns the empty string and raises nothing.
C7_AllFalseEmpty ==
    (call.op = "format" /\ outcome # "pending" /\ AllFlagsFalse(call)) =>
        (outcome = "returned" /\ error = NoError /\ result = "")

\* C7 witness: a returned call with message=False and a false extra field.
C7_Witness ==
    /\ FormatReturned
    /\ AllFlagsFalse(call)
    /\ \E i \in 1..Len(call.kwargs) : call.kwargs[i][1] \in ExtraFields
    /\ \E i \in 1..Len(call.kwargs) : call.kwargs[i][1] = "message"

\* C8: format(name=True, lineno=True) returns '%(name)s %(lineno)s %(message)s',
\* the lineno token before the message token (the docstring's example).
C8_DocstringExample ==
    (FormatReturned /\ call.args = <<>>
        /\ call.kwargs = << <<"name", TRUE>>, <<"lineno", TRUE>> >>) =>
        result = "%(name)s %(lineno)s %(message)s"

(***************************************************************************)
(* Properties of the constructor (SpecInit)                                *)
(***************************************************************************)

\* C2: construction succeeds exactly when the lower-cased mode is "a" or
\* "w"; the config then stores the lower-cased token ("A" is stored as "a");
\* for every other mode it fails with ValueError and there is no config.
C2_ModeValidation ==
    (call.op = "__init__" /\ outcome # "pending") =>
        IF call.mode \in {<<"a">>, <<"A">>}
        THEN outcome = "returned" /\ cfg # NoConfig /\ cfg.mode = <<"a">>
        ELSE IF call.mode \in {<<"w">>, <<"W">>}
        THEN outcome = "returned" /\ cfg # NoConfig /\ cfg.mode = <<"w">>
        ELSE outcome = "raised" /\ error.type = "ValueError" /\ cfg = NoConfig

\* C2 witness: the constructor returned for mode "A" and stored "a".
C2_Witness ==
    /\ call.op = "__init__"
    /\ outcome = "returned"
    /\ call.mode = <<"A">>
    /\ cfg # NoConfig
    /\ cfg.mode = <<"a">>

(***************************************************************************)
(* Properties of get_logger run to completion (Spec)                       *)
(***************************************************************************)
GetLoggerReturned == call.op = "get_logger" /\ outcome = "returned"
GetLoggerRaised == call.op = "get_logger" /\ outcome = "raised"

\* log_file is set: neither None nor the empty string.
LogFileSet(c) == c.log_file \notin {None, ""}

\* C1: after a successful get_logger call, also one that follows earlier
\* calls for the same name, the logger registered under the name has exactly
\* one handler, and it is the handler this call created: the newest Handler
\* object, configured as the config says, and none of those attached before.
C1_OneHandlerMostRecent ==
    GetLoggerReturned =>
        LET hs == registry[call.self.name].handlers
        IN  /\ Len(hs) = 1
            /\ hs[1].id = created
            /\ \A i \in 1..Len(call.before) : call.before[i].id # hs[1].id
            /\ hs[1].kind = IF LogFileSet(call.self) THEN "FileHandler" ELSE "StreamHandler"

\* C1 witness: get_logger returned for a name that had a handler attached by
\* an earlier call.
C1_Witness ==
    /\ GetLoggerReturned
    /\ Len(call.before) = 1
    /\ Len(registry[call.self.name].handlers) = 1

\* C4: when get_logger is called with log_file set and the destination
\* cannot be prepared (log_path cannot be created, or log_path/log_file
\* cannot be opened), the call raises a PermissionError that carries the
\* path log_path/log_file, and no console handler is attached.
C4_PermissionErrorCarriesPath ==
    (call.op = "get_logger" /\ LogFileSet(call.self)
        /\ call.fsBefore \notin {"absent_ok", "dir_ok"}) =>
        /\ outcome = "raised"
        /\ error.type = "PermissionError"
        /\ error.path = call.self.log_path \o <<call.self.log_file>>
        /\ \A i \in 1..Len(registry[call.self.name].handlers) :
                registry[call.self.name].handlers[i].kind # "StreamHandler"

\* C5: the log_path directory is created only by get_logger, only when
\* log_file is set and the path did not exist: no constructor call and no
\* get_logger call without log_file changes the filesystem, a change creates
\* the config's log_path and nothing else, and after a successful get_logger
\* with log_file set the directory exists.
C5_DirectoryCreatedLazily ==
    [][ /\ (fs' # fs) =>
            /\ call'.op = "get_logger"
            /\ cfg # NoConfig
            /\ LogFileSet(cfg)
            /\ fs[cfg.log_path] \in {"absent_ok", "absent_denied", "absent_notdir"}
            /\ fs'[cfg.log_path] \in {"dir_ok", "dir_ro"}
            /\ \A p \in LogPaths \ {cfg.log_path} : fs'[p] = fs[p]
        /\ (call'.op = "get_logger" /\ outcome' = "returned" /\ LogFileSet(cfg)) =>
            fs'[cfg.log_path] \in {"dir_ok", "dir_ro"}
      ]_vars

\* C5 witness: get_logger returned with log_file set for a log_path that was
\* missing before the call and is a directory now.
C5_Witness ==
    /\ GetLoggerReturned
    /\ LogFileSet(call.self)
    /\ call.fsBefore = "absent_ok"
    /\ fs[call.self.log_path] = "dir_ok"

\* C9: get_logger either succeeds fully (level set, one handler with the
\* config's formatter) or leaves no handler: after a call that raised, the
\* logger of that name has no handler, whatever was attached before the call.
C9_FailureLeavesNoHandler ==
    /\ GetLoggerRaised => registry[call.self.name].handlers = <<>>
    /\ GetLoggerReturned =>
            /\ registry[call.self.name].registered
            /\ registry[call.self.name].level = call.self.level
            /\ Len(registry[call.self.name].handlers) = 1
            /\ registry[call.self.name].handlers[1].formatter = call.self.formatter

\* C9 witness: the file could not be opened, and the logger had a handler
\* from an earlier successful call.
C9_Witness ==
    /\ GetLoggerRaised
    /\ error.cause # None
    /\ Len(call.before) = 1
    /\ registry[call.self.name].handlers = <<>>

\* C10: a get_logger call, returning or raising, leaves the level and the
\* handlers of every logger of another name as they were, and leaves the
\* LoggerConfig's fields as they were.
C10_Frame ==
    [][ (call'.op = "get_logger") =>
            /\ cfg' = cfg
            /\ call'.self = cfg
            /\ \A n \in Names \ {cfg.name} : registry'[n] = registry[n]
      ]_vars

\* C10 witness: after a get_logger call, a logger of another name still has
\* its handler.
C10_Witness ==
    /\ call.op = "get_logger"
    /\ \E n \in Names \ {call.self.name} : Len(registry[n].handlers) = 1

(***************************************************************************)
(* Properties of concurrent get_logger calls (SpecThreads)                 *)
(***************************************************************************)

\* C6: under every interleaving of concurrent get_logger calls on one logger
\* name, once the calls have returned the logger has exactly one handler,
\* never two.
C6_OneHandlerAfterConcurrentCalls ==
    (\A t \in Threads : pc[t] = "done") =>
        Len(registry[SharedName].handlers) = 1

====
